---- MODULE Spec2Model ----
(***************************************************************************)
(* A model of pdfcipher's entry point (src/pdfcipher/__init__.py):         *)
(* collect_pdfs and pdfcypher_run.  The file system, the typed passwords   *)
(* and the exit code of every qpdf run are the environment.                *)
(***************************************************************************)
EXTENDS Integers, Sequences, FiniteSets

\* ------------------------------------------------------------------ bounds
\* longest list of path arguments
MaxArgs == 2
\* most runs of the external tool in one execution
MaxCalls == 3
\* passwords the user may type are 1..MaxPw
MaxPw == 2
\* exit codes of the external tool are 0..MaxExit
MaxExit == 3

Passwords == 1..MaxPw
ExitCodes == 0..MaxExit

\* ------------------------------------------------------- program constants
FLAG_MODE_ENCRYPT == "FLAG_MODE_ENCRYPT"
FLAG_MODE_DECRYPT == "FLAG_MODE_DECRYPT"
\* "The exit-code 2 means that the password is invalid"
BadPasswordExit == 2
\* the value of a variable that is not yet bound
None == 0

\* ------------------------------------------------------------ file system
\* The tree the run sees.  A node is its parent (0: the working directory),
\* its name as a sequence of characters, and what the path is on disk.
\*   1 d1/          2 d1/x.PDF     3 d1/s/       4 d1/s/w.pdf
\*   5 d2/          6 d2/t.pdf/    7 d2/z.txt
\*   8 a.pdf        9 b.PDF       10 c.txt      11 nope.pdf (does not exist)
FS ==
    << [parent |-> 0, name |-> <<"d", "1">>, kind |-> "dir"],
       [parent |-> 1, name |-> <<"x", ".", "P", "D", "F">>, kind |-> "file"],
       [parent |-> 1, name |-> <<"s">>, kind |-> "dir"],
       [parent |-> 3, name |-> <<"w", ".", "p", "d", "f">>, kind |-> "file"],
       [parent |-> 0, name |-> <<"d", "2">>, kind |-> "dir"],
       [parent |-> 5, name |-> <<"t", ".", "p", "d", "f">>, kind |-> "dir"],
       [parent |-> 5, name |-> <<"z", ".", "t", "x", "t">>, kind |-> "file"],
       [parent |-> 0, name |-> <<"a", ".", "p", "d", "f">>, kind |-> "file"],
       [parent |-> 0, name |-> <<"b", ".", "P", "D", "F">>, kind |-> "file"],
       [parent |-> 0, name |-> <<"c", ".", "t", "x", "t">>, kind |-> "file"],
       [parent |-> 0, name |-> <<"n", ".", "p", "d", "f">>, kind |-> "missing"] >>

Nodes == 1..Len(FS)
\* the paths a command line may name
ArgPaths == {1, 5, 8, 9, 10, 11}

\* str.lower() on one character
LowerChar(c) ==
    CASE c = "P" -> "p"
      [] c = "D" -> "d"
      [] c = "F" -> "f"
      [] OTHER -> c

\* str.lower()
Lower(s) == [i \in 1..Len(s) |-> LowerChar(s[i])]

\* str.rfind("."), 1-based; 0 when there is no dot
RFindDot(s) ==
    LET dots == {i \in 1..Len(s) : s[i] = "."}
    IN  IF dots = {} THEN 0 ELSE CHOOSE i \in dots : \A j \in dots : j <= i

\* PurePath.suffix: from the last dot of the name, unless the dot leads or
\* ends the name
Suffix(n) ==
    LET s == FS[n].name
        i == RFindDot(s)
    IN  IF 1 < i /\ i < Len(s) THEN SubSeq(s, i, Len(s)) ELSE << >>

\* Path.is_file()
is_file(n) == FS[n].kind = "file"

\* Path.is_dir()
is_dir(n) == FS[n].kind = "dir"

DotPdf == <<".", "p", "d", "f">>

\* fnmatch of a name against "*.pdf"; the platform decides whether the case
\* of the letters counts (os.path.normcase)
MatchStarPdf(s, cs) ==
    LET t == IF cs THEN s ELSE Lower(s)
    IN  /\ Len(t) >= Len(DotPdf)
        /\ SubSeq(t, Len(t) - Len(DotPdf) + 1, Len(t)) = DotPdf

RECURSIVE Under(_, _)
\* n lies below directory d, at any depth
Under(n, d) ==
    /\ FS[n].parent # 0
    /\ \/ FS[n].parent = d
       \/ Under(FS[n].parent, d)

\* the entries Path.rglob("*.pdf") yields for directory d
RGlobSet(d, cs) ==
    {n \in Nodes : /\ Under(n, d)
                   /\ FS[n].kind # "missing"
                   /\ MatchStarPdf(FS[n].name, cs)}

\* every order in which the entries of set S may be listed
Orders(S) ==
    {q \in [1..Cardinality(S) -> S] : \A i, j \in 1..Cardinality(S) : q[i] = q[j] => i = j}

\* --------------------------------------------------------------- state
VARIABLES
    mode,              \* pdfcypher_run's mode
    files_or_dirs,     \* pdfcypher_run's files_or_dirs
    caseSensitive,     \* whether the platform's glob tells "PDF" from "pdf"
    pc,                \* where the program is
    password,          \* pdfcypher_run's locals
    password2,
    current_password,
    pdfs,              \* collect_pdfs' result list
    ci,                \* list_paths entries collect_pdfs has consumed
    fi,                \* position in pdfs of the file of the for loop
    log,               \* what happened so far: prompts and runs of the tool
    err,               \* the message written to stderr
    status             \* the exit status; -1 while running, 0 on return

vars == <<mode, files_or_dirs, caseSensitive, pc, password, password2,
          current_password, pdfs, ci, fi, log, err, status>>

ArgLists == UNION {[1..n -> ArgPaths] : n \in 1..MaxArgs}

\* Event with the tool writing to another path than the one it reads
EventToOtherPath(ev, pw, pos, file, rc) ==
    [ev |-> ev, pw |-> pw, pos |-> pos, in |-> file, out |-> 0, rc |-> rc]

Event(ev, pw, pos, file, rc) ==
    [ev |-> ev, pw |-> pw, pos |-> pos, in |-> file, out |-> file, rc |-> rc]

Calls == {k \in 1..Len(log) : log[k].ev = "call"}
Prompts == {k \in 1..Len(log) : log[k].ev # "call"}

Init ==
    /\ mode \in {FLAG_MODE_ENCRYPT, FLAG_MODE_DECRYPT}
    /\ files_or_dirs \in ArgLists
    /\ caseSensitive \in BOOLEAN
    /\ pc = "start"
    /\ password = None
    /\ password2 = None
    /\ current_password = None
    /\ pdfs = << >>
    /\ ci = 0
    /\ fi = 0
    /\ log = << >>
    /\ err = "none"
    /\ status = -1

\* ------------------------------------------------------------- actions
\* InputPassword asking for the confirmation in decrypt mode too
InputPasswordAlwaysConfirmed ==
    /\ pc = "start"
    /\ \E p \in Passwords :
        /\ password' = p
        /\ log' = Append(log, Event("prompt", p, 0, 0, 0))
    /\ pc' = "confirm"
    /\ UNCHANGED <<mode, files_or_dirs, caseSensitive, password2,
                   current_password, pdfs, ci, fi, err, status>>

\* InputPassword never asking for the confirmation
InputPasswordNeverConfirmed ==
    /\ pc = "start"
    /\ \E p \in Passwords :
        /\ password' = p
        /\ log' = Append(log, Event("prompt", p, 0, 0, 0))
    /\ pc' = "collect"
    /\ UNCHANGED <<mode, files_or_dirs, caseSensitive, password2,
                   current_password, pdfs, ci, fi, err, status>>

\* password = input_password(), in either mode
InputPassword ==
    /\ pc = "start"
    /\ \E p \in Passwords :
        /\ password' = p
        /\ log' = Append(log, Event("prompt", p, 0, 0, 0))
    /\ pc' = IF mode = FLAG_MODE_ENCRYPT THEN "confirm" ELSE "collect"
    /\ UNCHANGED <<mode, files_or_dirs, caseSensitive, password2,
                   current_password, pdfs, ci, fi, err, status>>

\* InputConfirmation without the comparison
InputConfirmationUnchecked ==
    /\ pc = "confirm"
    /\ \E p \in Passwords :
        /\ password2' = p
        /\ log' = Append(log, Event("confirm", p, 0, 0, 0))
    /\ pc' = "collect"
    /\ UNCHANGED <<mode, files_or_dirs, caseSensitive, password,
                   current_password, pdfs, ci, fi, err, status>>

\* password2 = input_password("Re-enter ..."), and the comparison
InputConfirmation ==
    /\ pc = "confirm"
    /\ \E p \in Passwords :
        /\ password2' = p
        /\ log' = Append(log, Event("confirm", p, 0, 0, 0))
        /\ IF password # p
           THEN /\ err' = "Error: Passwords do not match."
                /\ status' = 1
                /\ pc' = "exit"
           ELSE /\ pc' = "collect"
                /\ UNCHANGED <<err, status>>
    /\ UNCHANGED <<mode, files_or_dirs, caseSensitive, password,
                   current_password, pdfs, ci, fi>>

\* collect_pdfs, one pass of its loop: a file with suffix .pdf
CollectFile ==
    /\ pc = "collect"
    /\ ci < Len(files_or_dirs)
    /\ LET path == files_or_dirs[ci + 1]
       IN  /\ is_file(path) /\ Lower(Suffix(path)) = DotPdf
           /\ pdfs' = Append(pdfs, path)
    /\ ci' = ci + 1
    /\ UNCHANGED <<mode, files_or_dirs, caseSensitive, pc, password, password2,
                   current_password, fi, log, err, status>>

\* collect_pdfs, one pass of its loop: a directory
CollectDir ==
    /\ pc = "collect"
    /\ ci < Len(files_or_dirs)
    /\ LET path == files_or_dirs[ci + 1]
       IN  /\ ~(is_file(path) /\ Lower(Suffix(path)) = DotPdf)
           /\ is_dir(path)
           /\ \E q \in Orders(RGlobSet(path, caseSensitive)) :
                pdfs' = pdfs \o q
    /\ ci' = ci + 1
    /\ UNCHANGED <<mode, files_or_dirs, caseSensitive, pc, password, password2,
                   current_password, fi, log, err, status>>

\* CollectInvalid passing over the path instead of exiting
CollectInvalidSkipped ==
    /\ pc = "collect"
    /\ ci < Len(files_or_dirs)
    /\ LET path == files_or_dirs[ci + 1]
       IN  /\ ~(is_file(path) /\ Lower(Suffix(path)) = DotPdf)
           /\ ~is_dir(path)
    /\ err' = "Error: Not a file or directory"
    /\ ci' = ci + 1
    /\ UNCHANGED <<mode, files_or_dirs, caseSensitive, pc, password, password2,
                   current_password, pdfs, fi, log, status>>

\* CollectInvalid ending the walk and handing over what it has so far
CollectInvalidReturnsSoFar ==
    /\ pc = "collect"
    /\ ci < Len(files_or_dirs)
    /\ LET path == files_or_dirs[ci + 1]
       IN  /\ ~(is_file(path) /\ Lower(Suffix(path)) = DotPdf)
           /\ ~is_dir(path)
    /\ err' = "Error: Not a file or directory"
    /\ pc' = "for"
    /\ UNCHANGED <<mode, files_or_dirs, caseSensitive, password, password2,
                   current_password, pdfs, ci, fi, log, status>>

\* collect_pdfs, one pass of its loop: anything else
CollectInvalid ==
    /\ pc = "collect"
    /\ ci < Len(files_or_dirs)
    /\ LET path == files_or_dirs[ci + 1]
       IN  /\ ~(is_file(path) /\ Lower(Suffix(path)) = DotPdf)
           /\ ~is_dir(path)
    /\ err' = "Error: Not a file or directory"
    /\ status' = 1
    /\ pc' = "exit"
    /\ UNCHANGED <<mode, files_or_dirs, caseSensitive, password, password2,
                   current_password, pdfs, ci, fi, log>>

\* collect_pdfs returns pdfs, and the for loop starts
CollectReturn ==
    /\ pc = "collect"
    /\ ci = Len(files_or_dirs)
    /\ pc' = "for"
    /\ UNCHANGED <<mode, files_or_dirs, caseSensitive, password, password2,
                   current_password, pdfs, ci, fi, log, err, status>>

\* NextFile keeping the password of the previous file
NextFileKeepsPassword ==
    /\ pc = "for"
    /\ fi < Len(pdfs)
    /\ fi' = fi + 1
    /\ current_password' = IF current_password = None THEN password ELSE current_password
    /\ pc' = "try"
    /\ UNCHANGED <<mode, files_or_dirs, caseSensitive, password, password2,
                   pdfs, ci, log, err, status>>

\* NextFile taking the same file again
NextFileStaysOnFile ==
    /\ pc = "for"
    /\ fi < Len(pdfs)
    /\ fi' = IF fi = 0 THEN 1 ELSE fi
    /\ current_password' = password
    /\ pc' = "try"
    /\ UNCHANGED <<mode, files_or_dirs, caseSensitive, password, password2,
                   pdfs, ci, log, err, status>>

\* the for loop takes the next file: current_password = password
NextFile ==
    /\ pc = "for"
    /\ fi < Len(pdfs)
    /\ fi' = fi + 1
    /\ current_password' = password
    /\ pc' = "try"
    /\ UNCHANGED <<mode, files_or_dirs, caseSensitive, password, password2,
                   pdfs, ci, log, err, status>>

\* Return leaving the loop one file early
ReturnBeforeLastFile ==
    /\ pc = "for"
    /\ fi >= Len(pdfs) - 1
    /\ pc' = "done"
    /\ status' = 0
    /\ UNCHANGED <<mode, files_or_dirs, caseSensitive, password, password2,
                   current_password, pdfs, ci, fi, log, err>>

\* the for loop is exhausted: pdfcypher_run returns
Return ==
    /\ pc = "for"
    /\ fi = Len(pdfs)
    /\ pc' = "done"
    /\ status' = 0
    /\ UNCHANGED <<mode, files_or_dirs, caseSensitive, password, password2,
                   current_password, pdfs, ci, fi, log, err>>

\* pdf.encrypt / pdf.decrypt (file, file, current_password) returns: break
RunOk ==
    /\ pc = "try"
    /\ Cardinality(Calls) < MaxCalls
    /\ log' = Append(log, Event("call", current_password, fi, pdfs[fi], 0))
    /\ pc' = "for"
    /\ UNCHANGED <<mode, files_or_dirs, caseSensitive, password, password2,
                   current_password, pdfs, ci, fi, err, status>>

\* RunBadPassword giving the file up and going on to the next one
RunBadPasswordSkipsFile ==
    /\ pc = "try"
    /\ Cardinality(Calls) < MaxCalls
    /\ log' = Append(log, Event("call", current_password, fi, pdfs[fi], BadPasswordExit))
    /\ pc' = "for"
    /\ UNCHANGED <<mode, files_or_dirs, caseSensitive, password, password2,
                   current_password, pdfs, ci, fi, err, status>>

\* the run raises CalledProcessError with returncode 2
RunBadPassword ==
    /\ pc = "try"
    /\ Cardinality(Calls) < MaxCalls
    /\ log' = Append(log, Event("call", current_password, fi, pdfs[fi], BadPasswordExit))
    /\ pc' = "retry"
    /\ UNCHANGED <<mode, files_or_dirs, caseSensitive, password, password2,
                   current_password, pdfs, ci, fi, err, status>>

\* RunFatal handling every failure as a bad password
RunFatalRetries ==
    /\ pc = "try"
    /\ Cardinality(Calls) < MaxCalls
    /\ \E rc \in ExitCodes \ {0, BadPasswordExit} :
        log' = Append(log, Event("call", current_password, fi, pdfs[fi], rc))
    /\ pc' = "retry"
    /\ UNCHANGED <<mode, files_or_dirs, caseSensitive, password, password2,
                   current_password, pdfs, ci, fi, err, status>>

\* the run raises CalledProcessError with another returncode
RunFatal ==
    /\ pc = "try"
    /\ Cardinality(Calls) < MaxCalls
    /\ \E rc \in ExitCodes \ {0, BadPasswordExit} :
        log' = Append(log, Event("call", current_password, fi, pdfs[fi], rc))
    /\ err' = "Error: qpdf returned non-zero exit code"
    /\ status' = 1
    /\ pc' = "exit"
    /\ UNCHANGED <<mode, files_or_dirs, caseSensitive, password, password2,
                   current_password, pdfs, ci, fi>>

\* Reprompt storing what was typed in password, not in current_password
RepromptIntoPassword ==
    /\ pc = "retry"
    /\ \E p \in Passwords :
        /\ password' = p
        /\ log' = Append(log, Event("prompt", p, 0, 0, 0))
    /\ pc' = "try"
    /\ UNCHANGED <<mode, files_or_dirs, caseSensitive, current_password, password2,
                   pdfs, ci, fi, err, status>>

\* current_password = input_password(), then around the while loop
Reprompt ==
    /\ pc = "retry"
    /\ \E p \in Passwords :
        /\ current_password' = p
        /\ log' = Append(log, Event("prompt", p, 0, 0, 0))
    /\ pc' = "try"
    /\ UNCHANGED <<mode, files_or_dirs, caseSensitive, password, password2,
                   pdfs, ci, fi, err, status>>

Next ==
    \/ InputPassword
    \/ InputConfirmation
    \/ CollectFile
    \/ CollectDir
    \/ CollectInvalid
    \/ CollectReturn
    \/ NextFile
    \/ Return
    \/ RunOk
    \/ RunBadPassword
    \/ RunFatal
    \/ Reprompt

Spec == Init /\ [][Next]_vars

\* ------------------------------------------------- runs without a bound
\* The log is what bounds the runs above.  The program itself counts
\* nothing, and the steps below are the steps of the while loop without
\* their entry in the log: with them the loop goes on for as long as the
\* tool and the user make it.

\* pdf.encrypt / pdf.decrypt returns: break
RunOkUnlogged ==
    /\ pc = "try"
    /\ pc' = "for"
    /\ UNCHANGED <<mode, files_or_dirs, caseSensitive, password, password2,
                   current_password, pdfs, ci, fi, log, err, status>>

\* the run raises CalledProcessError with returncode 2
RunBadPasswordUnlogged ==
    /\ pc = "try"
    /\ pc' = "retry"
    /\ UNCHANGED <<mode, files_or_dirs, caseSensitive, password, password2,
                   current_password, pdfs, ci, fi, log, err, status>>

\* the run raises CalledProcessError with another returncode
RunFatalUnlogged ==
    /\ pc = "try"
    /\ err' = "Error: qpdf returned non-zero exit code"
    /\ status' = 1
    /\ pc' = "exit"
    /\ UNCHANGED <<mode, files_or_dirs, caseSensitive, password, password2,
                   current_password, pdfs, ci, fi, log>>

\* current_password = input_password(), then around the while loop
RepromptUnlogged ==
    /\ pc = "retry"
    /\ \E p \in Passwords : current_password' = p
    /\ pc' = "try"
    /\ UNCHANGED <<mode, files_or_dirs, caseSensitive, password, password2,
                   pdfs, ci, fi, log, err, status>>

LiveNext ==
    \/ InputPassword
    \/ InputConfirmation
    \/ CollectFile
    \/ CollectDir
    \/ CollectInvalid
    \/ CollectReturn
    \/ NextFile
    \/ Return
    \/ RunOkUnlogged
    \/ RunBadPasswordUnlogged
    \/ RunFatalUnlogged
    \/ RepromptUnlogged

\* The program is sequential and every step it waits for happens: the user
\* answers a prompt and a run of the tool ends.
SpecLive == Init /\ [][LiveNext]_vars /\ WF_vars(LiveNext)

\* ------------------------------------------------------------ properties
IsCall(k) == k \in 1..Len(log) /\ log[k].ev = "call"
IsPrompt(k) == k \in 1..Len(log) /\ log[k].ev # "call"
BadPassword(k) == IsCall(k) /\ log[k].rc = BadPasswordExit
\* the run at k is the first one on its file
FirstOnFile(k) == IsCall(k) /\ \A j \in 1..(k - 1) : IsCall(j) => log[j].pos # log[k].pos

\* C1: a run of the tool that exits with code 2 is followed by one prompt,
\* and the prompt by a run on the same file with the password just typed;
\* until then the program waits at that file.  A run that is not the first
\* on its file comes right after such a failure and its prompt: one retry
\* per failure.
C1_RetryOnBadPassword ==
    /\ \A k \in 1..Len(log) :
        BadPassword(k) =>
            /\ k = Len(log) => pc = "retry" /\ status = -1 /\ fi = log[k].pos
            /\ k + 1 <= Len(log) => log[k + 1].ev = "prompt"
            /\ k + 1 = Len(log) =>
                 pc = "try" /\ fi = log[k].pos /\ current_password = log[k + 1].pw
            /\ k + 2 <= Len(log) =>
                 /\ IsCall(k + 2)
                 /\ log[k + 2].pos = log[k].pos
                 /\ log[k + 2].in = log[k].in
                 /\ log[k + 2].pw = log[k + 1].pw
    /\ \A k \in 1..Len(log) :
        IsCall(k) /\ ~FirstOnFile(k) =>
            /\ k > 2
            /\ BadPassword(k - 2)
            /\ log[k - 2].pos = log[k].pos

\* a failed run, then a retry on the same file with another password
C1_Witness ==
    \E k \in 1..Len(log) :
        /\ BadPassword(k)
        /\ k + 2 <= Len(log)
        /\ log[k + 2].pw # log[k].pw

\* C2: a run of the tool that exits with a code other than 0 and 2 is the
\* last thing that happens: no prompt and no run follows it, on this file
\* or the remaining ones, and the exit status is 1.
C2_FatalOnOtherExit ==
    \A k \in 1..Len(log) :
        IsCall(k) /\ log[k].rc \notin {0, BadPasswordExit} =>
            /\ k = Len(log)
            /\ status = 1
            /\ pc = "exit"
            /\ err = "Error: qpdf returned non-zero exit code"

\* a fatal run while files remain
C2_Witness ==
    /\ Len(log) > 0
    /\ IsCall(Len(log))
    /\ log[Len(log)].rc \notin {0, BadPasswordExit}
    /\ fi < Len(pdfs)
    /\ status = 1

\* C3: in encrypt mode, a confirmation that differs from the password ends
\* the program with status 1 before any path is collected and before any
\* run of the tool.
C3_MismatchIsFatal ==
    (mode = FLAG_MODE_ENCRYPT /\ password2 # None /\ password # password2) =>
        /\ status = 1
        /\ pc = "exit"
        /\ err = "Error: Passwords do not match."
        /\ ci = 0
        /\ pdfs = << >>
        /\ Calls = {}

C3_Witness ==
    /\ mode = FLAG_MODE_ENCRYPT
    /\ password2 # None
    /\ password # password2
    /\ status = 1

\* the password of run k was typed twice in a row, entry then confirmation,
\* before the run
ConfirmedBefore(k) ==
    \E i \in 1..(k - 2) :
        /\ log[i].ev = "prompt"
        /\ log[i + 1].ev = "confirm"
        /\ log[i].pw = log[k].pw
        /\ log[i + 1].pw = log[k].pw

\* C4: in encrypt mode every password given to the tool, on a first attempt
\* or a retry, was confirmed by a matching second entry before that run.
C4_EveryPasswordConfirmed ==
    mode = FLAG_MODE_ENCRYPT => \A k \in 1..Len(log) : IsCall(k) => ConfirmedBefore(k)

\* the name ends in ".pdf", in any letter case
EndsInDotPdf(s) ==
    /\ Len(s) > Len(DotPdf)
    /\ \A i \in 1..Len(DotPdf) :
        LowerChar(s[Len(s) - Len(DotPdf) + i]) = DotPdf[i]

\* an existing regular file named *.pdf, in any letter case
IsPdfFile(n) == FS[n].kind = "file" /\ EndsInDotPdf(FS[n].name)

\* a path argument that is neither a directory nor a PDF file
InvalidPath(n) == FS[n].kind # "dir" /\ ~IsPdfFile(n)

\* collect_pdfs has returned its list
Collected == pc \in {"for", "try", "retry", "done"} \/ Calls # {}

\* C5: collect_pdfs never gets past a path argument that is neither a
\* directory nor an existing file with a .pdf suffix, and never returns a
\* list when there is one: the pass of its loop that meets such a path ends
\* the program with status 1.
C5_InvalidPathIsFatal ==
    /\ [](\A i \in 1..Len(files_or_dirs) :
            InvalidPath(files_or_dirs[i]) => ci < i /\ ~Collected)
    /\ [][(/\ pc = "collect"
           /\ ci < Len(files_or_dirs)
           /\ InvalidPath(files_or_dirs[ci + 1]))
          => (status' = 1 /\ pc' = "exit" /\ log' = log)]_vars

\* collect_pdfs has ended the program at an existing file with another
\* suffix that follows a valid argument
C5_Witness ==
    /\ status = 1
    /\ err = "Error: Not a file or directory"
    /\ ci = 1
    /\ FS[files_or_dirs[ci + 1]].kind = "file"

RECURSIVE SumCard(_, _)
\* the number of entries the first i arguments contribute, f[j] being the
\* set argument j contributes
SumCard(f, i) == IF i = 0 THEN 0 ELSE SumCard(f, i - 1) + Cardinality(f[i])

\* pdfs lists f[1], ..., f[n] one after the other, each in some order
ListsInArgumentOrder(f, n) ==
    /\ Len(pdfs) = SumCard(f, n)
    /\ \A i \in 1..n :
        {pdfs[k] : k \in (SumCard(f, i - 1) + 1)..SumCard(f, i)} = f[i]

\* what the code takes from path n: the walk's entries for a directory, the
\* path itself otherwise
YieldOf == [n \in Nodes, cs \in BOOLEAN |-> IF is_dir(n) THEN RGlobSet(n, cs) ELSE {n}]

\* what the code takes from each argument
Yielded == [i \in 1..Len(files_or_dirs) |-> YieldOf[files_or_dirs[i], caseSensitive]]

\* C6: the collected list follows the order of the path arguments; the tool
\* runs on the files in the order of the list: a run on position i never
\* follows a run on a later position, the first run is on position 1, and
\* the first run on position i+1 comes right after a run on position i that
\* exited with code 0.
C6_OneFileAtATimeInOrder ==
    /\ Collected => ListsInArgumentOrder(Yielded, Len(files_or_dirs))
    /\ fi <= Len(pdfs)
    /\ \A k \in 1..Len(log) :
        IsCall(k) =>
            /\ log[k].pos \in 1..fi
            /\ log[k].in = pdfs[log[k].pos]
            /\ \A j \in 1..(k - 1) : IsCall(j) => log[j].pos <= log[k].pos
            /\ FirstOnFile(k) =>
                 \/ log[k].pos = 1
                 \/ /\ IsCall(k - 1)
                    /\ log[k - 1].pos = log[k].pos - 1
                    /\ log[k - 1].rc = 0
    /\ \A i \in 1..(fi - 1) :
        \E k \in 1..Len(log) : IsCall(k) /\ log[k].pos = i /\ log[k].rc = 0

\* a failed run and a retry on the first file, then a run on the second
C6_Witness ==
    /\ Len(log) > 0
    /\ IsCall(Len(log))
    /\ log[Len(log)].pos = 2
    /\ \E k \in 1..Len(log) : BadPassword(k) /\ log[k].pos = 1
    /\ pdfs[1] # pdfs[2]

\* the last run before position k of the log
PreviousCall(k) == CHOOSE j \in 1..(k - 1) : IsCall(j) /\ \A i \in (j + 1)..(k - 1) : ~IsCall(i)

\* C7 as stated: the password that replaced the first one after a failed
\* attempt is the one of the first attempt on the files that follow.
C7_ReplacementCarriedOver ==
    \A k \in 1..Len(log) :
        (IsCall(k) /\ FirstOnFile(k) /\ log[k].pos > 1) =>
            log[k].pw = log[PreviousCall(k)].pw

\* C7, amended: the first attempt on every file uses the password entered
\* at the start; a password entered after a failed attempt is used for the
\* attempts that remain on that file only.
C7_FirstAttemptUsesInitialPassword ==
    /\ \A k \in 1..Len(log) :
        IsCall(k) =>
            IF FirstOnFile(k)
            THEN log[k].pw = password /\ log[k].pw = log[1].pw
            ELSE log[k].pw = log[k - 1].pw
    /\ (Len(log) > 0 /\ password # None) => password = log[1].pw

\* the first attempt on the second file does not use the password that made
\* the first file succeed
C7_Witness ==
    \E k \in 1..Len(log) :
        /\ IsCall(k)
        /\ FirstOnFile(k)
        /\ log[k].pos = 2
        /\ log[k].pw # log[PreviousCall(k)].pw

\* the prompts the program starts with: two in encrypt mode, one otherwise
InitialPrompts == IF mode = FLAG_MODE_ENCRYPT THEN 2 ELSE 1

\* C8: the first run of the tool comes after exactly two prompts in encrypt
\* mode (entry and confirmation) and exactly one in decrypt mode; every
\* later prompt comes right after a run that exited with code 2, and there
\* is one prompt per such run.
C8_PromptCount ==
    /\ \A k \in 1..Len(log) :
        IsCall(k) =>
            /\ k > InitialPrompts
            /\ \A j \in 1..InitialPrompts : IsPrompt(j)
            /\ log[1].ev = "prompt"
            /\ mode = FLAG_MODE_ENCRYPT => log[2].ev = "confirm"
    /\ \A k \in (InitialPrompts + 1)..Len(log) :
        IsPrompt(k) => BadPassword(k - 1) /\ log[k].ev = "prompt"
    /\ Cardinality(Prompts) <= InitialPrompts + Cardinality({k \in Calls : BadPassword(k)})
    /\ (Calls # {} /\ pc # "retry") =>
         Cardinality(Prompts) = InitialPrompts + Cardinality({k \in Calls : BadPassword(k)})

\* encrypt mode: two prompts, a failed run, one more prompt, another run
C8_Witness ==
    /\ mode = FLAG_MODE_ENCRYPT
    /\ Len(log) >= 5
    /\ BadPassword(3)
    /\ IsPrompt(4)
    /\ IsCall(5)

\* what the directory walk is to yield by the rule for a file argument
PdfFilesUnder(d) == {n \in Nodes : Under(n, d) /\ IsPdfFile(n)}

ExpectedOf == [n \in Nodes |-> IF FS[n].kind = "dir" THEN PdfFilesUnder(n) ELSE {n}]

Expected == [i \in 1..Len(files_or_dirs) |-> ExpectedOf[files_or_dirs[i]]]

\* C9: the list collect_pdfs returns is, argument by argument, the PDF files
\* below a directory argument (suffix .pdf in any letter case, no other
\* entry) and the file itself for a file argument.
C9_CollectsExactlyThePdfs ==
    Collected => ListsInArgumentOrder(Expected, Len(files_or_dirs))

\* C10 as stated: an invalid path ends the program before any prompt.
C10_InvalidPathBeforePrompt ==
    err = "Error: Not a file or directory" => Prompts = {}

\* C10, amended: the password is prompted for (and, in encrypt mode,
\* confirmed by a matching second entry) before collect_pdfs looks at the
\* first path; an invalid path ends the program with status 1 after these
\* prompts and before any run of the tool.
C10_PromptBeforeCollect ==
    /\ (pc = "collect" \/ ci > 0 \/ Collected \/ err = "Error: Not a file or directory") =>
         /\ Len(log) >= InitialPrompts
         /\ log[1].ev = "prompt"
         /\ mode = FLAG_MODE_ENCRYPT =>
              log[2].ev = "confirm" /\ log[2].pw = log[1].pw
    /\ err = "Error: Not a file or directory" =>
         /\ status = 1
         /\ Len(log) = InitialPrompts
         /\ Calls = {}

\* an invalid path has ended an encrypt run, after both prompts
C10_Witness ==
    /\ err = "Error: Not a file or directory"
    /\ status = 1
    /\ mode = FLAG_MODE_ENCRYPT
    /\ Cardinality(Prompts) = 2

\* C11: when some path argument is invalid, at whatever position, the tool
\* never runs and the for loop never takes a file, also not a valid file
\* listed before the invalid path; the tool runs only after collect_pdfs
\* has gone through every argument.
C11_ValidationAllOrNothing ==
    /\ (\E i \in 1..Len(files_or_dirs) : InvalidPath(files_or_dirs[i])) =>
         /\ Calls = {}
         /\ fi = 0
         /\ pc \notin {"try", "retry", "done"}
    /\ (Calls # {} \/ fi > 0) => ci = Len(files_or_dirs)

\* the walk has collected files from a valid first argument and has ended
\* the program at an invalid second one
C11_Witness ==
    /\ Len(files_or_dirs) = 2
    /\ ~InvalidPath(files_or_dirs[1])
    /\ InvalidPath(files_or_dirs[2])
    /\ pdfs # << >>
    /\ pc = "exit"
    /\ status = 1
    /\ Calls = {}

\* the runs on position i of the list
CallsOn(i) == {k \in Calls : log[k].pos = i}

\* C12: when pdfcypher_run has returned, every position of the collected
\* list has exactly one run that exited with code 0, it is the last run on
\* that position, and the earlier runs on it exited with code 2; when no run
\* failed there is exactly one run per position.
C12_OneSuccessPerFile ==
    pc = "done" =>
        /\ status = 0
        /\ fi = Len(pdfs)
        /\ \A i \in 1..Len(pdfs) :
            /\ Cardinality({k \in CallsOn(i) : log[k].rc = 0}) = 1
            /\ \A k \in CallsOn(i) :
                IF \E j \in CallsOn(i) : j > k
                THEN log[k].rc = BadPasswordExit
                ELSE log[k].rc = 0
        /\ (\A k \in Calls : log[k].rc = 0) => Cardinality(Calls) = Len(pdfs)

\* a normal return over two files, one of them retried
C12_Witness ==
    /\ pc = "done"
    /\ Len(pdfs) = 2
    /\ Cardinality(Calls) = 3
    /\ \E k \in Calls : log[k].rc = BadPasswordExit

\* C14: every run of the tool, in either mode, is given one and the same
\* path to read and to write, and that path is the entry of the collected
\* list the loop is at.
C14_RewrittenInPlace ==
    \A k \in 1..Len(log) :
        IsCall(k) =>
            /\ log[k].in = log[k].out
            /\ log[k].pos \in 1..Len(pdfs)
            /\ log[k].in = pdfs[log[k].pos]
            /\ \E i \in 1..Len(pdfs) : pdfs[i] = log[k].out

\* encrypt mode: a retried run, each time on the same path in and out
C14_Witness ==
    /\ mode = FLAG_MODE_ENCRYPT
    /\ \E k \in Calls :
        /\ log[k].rc = BadPasswordExit
        /\ IsCall(k + 2)
        /\ log[k + 2].in = log[k].in
        /\ log[k + 2].out = log[k].in
        /\ log[k].in # 0

\* pdfcypher_run has returned or the program has exited
Terminated == pc \in {"done", "exit"}

\* a run of the tool that exits with code 2
BadPasswordStep == RunBadPassword \/ RunBadPasswordUnlogged

\* a run of the tool that exits with another code
OtherExitStep == RunOk \/ RunOkUnlogged \/ RunFatal \/ RunFatalUnlogged

\* a prompt after a failed run
RepromptStep == Reprompt \/ RepromptUnlogged

\* C13: a run in which the tool exits with code 2 only finitely many times
\* ends, by return or by exit.  The program keeps no count of the retries:
\* while it is at a file and the tool exits with code 2 it stays at that
\* file, and when from some point on the tool exits with code 2 only, the
\* program either ends without running it again or prompts and retries
\* forever at one file.
C13_TerminatesUnlessRetriedForever ==
    /\ (<>[][~BadPasswordStep]_vars) => <>Terminated
    /\ (<>[][~OtherExitStep]_vars) =>
         \/ <>Terminated
         \/ /\ <>[](pc \in {"try", "retry"})
            /\ []<><<BadPasswordStep>>_vars
            /\ []<><<RepromptStep>>_vars
    /\ [][(pc \in {"try", "retry"} /\ pc' \in {"try", "retry"}) => fi' = fi]_vars
    /\ [][Terminated => FALSE]_vars

\* the second file, after a password typed at a retry prompt, has failed
\* again and the program is about to prompt once more
C13_Witness ==
    /\ pc = "retry"
    /\ fi = 2
    /\ current_password # password
    /\ status = -1

====
